---------------------------- MODULE Spec2Model ----------------------------
(***************************************************************************)
(* maitouch_rs: a proxy between the display link ("ALLS", frames {...})    *)
(* and the touch-sensor link ("ADX", frames (...)).                        *)
(*                                                                         *)
(* Bytes are naturals 0..255.  A byte string is a sequence of bytes.       *)
(* A stream handle (a BufRead) is a sequence of events, one per refill of  *)
(* the reader's buffer: a data chunk, or an I/O error of some kind.  An    *)
(* empty data chunk is the reader's end of file (a read of 0 bytes).  A    *)
(* handle with no event left is a silent serial link: the port was opened  *)
(* with a read timeout, so every further refill fails with TimedOut.       *)
(***************************************************************************)
EXTENDS Integers, Sequences, FiniteSets, TLC

VARIABLES
    unit,          \* which unit runs: "proxy", "slot", "framer", "classifier"
    detail,        \* the parts of the history kept in detail (see NoHistory)
    \* ---- the proxy process (main.rs) ----
    pc,            \* position of the main thread (run_touch_proxy / stat_mode)
    alls_in,       \* display link, reader side: events not yet consumed
    adx_in,        \* sensor link, reader side: events not yet consumed
    alls_out,      \* last byte string written to the display link in this
                   \* iteration of the relay loop (<<>>: none yet)
    adx_out,       \* byte strings written to the sensor link in this iteration
    command_buffer,\* run_touch_proxy's command_buffer
    run_flag,      \* stat_mode's AtomicBool
    state_buffer,  \* stat_mode's RwLock<[u8; 9]> contents
    lock,          \* the RwLock: [writer: held for writing, readers: count]
    prod,          \* producer thread: [pc, local_buf, idx]
    publ,          \* publisher thread: its position
    watch,         \* watcher thread: its position
    hist,          \* history (ghost): see NoHistory
    \* ---- the stand-alone units ----
    tb_data,       \* TouchBuffer.data, an AtomicU64 (8 big-endian bytes)
    tb_arg,        \* the last argument given to a slot operation
    tb_out,        \* the last buffer TouchBuffer::load filled
    rw_out,        \* the last copy read out of the lock-guarded array
    fr_packet,     \* read_packet's PacketDelimiter
    fr_reader,     \* read_packet's reader
    fr_buffer,     \* read_packet's buffer
    fr_result,     \* what read_packet returned
    cl_buffer,     \* get_command_type's argument
    cl_result      \* get_command_type's result

proxyVars == <<pc, alls_in, adx_in, alls_out, adx_out,
               command_buffer, run_flag, lock, prod, publ, watch, hist>>
slotVars == <<tb_data, tb_arg, tb_out, rw_out>>
framerVars == <<fr_packet, fr_reader, fr_buffer, fr_result>>
classifierVars == <<cl_buffer, cl_result>>
vars == <<unit, detail, proxyVars, state_buffer, slotVars, framerVars, classifierVars>>

---------------------------------------------------------------------------
(* Bytes and literals                                                      *)

\* The ASCII codes of the characters the program's literals use.
Code ==
    ("{" :> 123) @@ ("}" :> 125) @@ ("(" :> 40) @@ (")" :> 41) @@
    ("H" :> 72) @@ ("A" :> 65) @@ ("L" :> 76) @@ ("T" :> 84) @@
    ("S" :> 83) @@ ("R" :> 82) @@ ("E" :> 69)

\* str.as_bytes(), a string given as the sequence of its characters.
as_bytes(s) == [i \in 1..Len(s) |-> Code[s[i]]]

TOUCH_PACKET_SIZE == 9
HALT_COMMAND == as_bytes(<<"{", "H", "A", "L", "T", "}">>)
RESET_COMMAND == as_bytes(<<"{", "R", "S", "E", "T", "}">>)
STAT_COMMAND == as_bytes(<<"{", "S", "T", "A", "T", "}">>)

ALLS_PACKET == [open |-> Code["{"], close |-> Code["}"]]
ADX_PACKET == [open |-> Code["("], close |-> Code[")"]]

---------------------------------------------------------------------------
(* Command Classifier: get_command_type                                    *)

\* A slice pattern matches a constant slice when the lengths agree and
\* every byte agrees.
SliceEq(a, b) == Len(a) = Len(b) /\ \A i \in 1..Len(a) : a[i] = b[i]

\* A classifier that compares only the constant's length of leading bytes.
get_command_type_prefix(buffer) ==
    LET Starts(c) == Len(buffer) >= Len(c) /\ SubSeq(buffer, 1, Len(c)) = c
    IN  IF Starts(HALT_COMMAND) THEN "Halt"
        ELSE IF Starts(STAT_COMMAND) THEN "Stat"
        ELSE IF Starts(RESET_COMMAND) THEN "Reset"
        ELSE "Config"

\* A classifier with the arms of {HALT} and {STAT} exchanged.
get_command_type_swapped(buffer) ==
    IF SliceEq(buffer, HALT_COMMAND) THEN "Stat"
    ELSE IF SliceEq(buffer, STAT_COMMAND) THEN "Halt"
    ELSE IF SliceEq(buffer, RESET_COMMAND) THEN "Reset"
    ELSE "Config"

get_command_type(buffer) ==
    IF SliceEq(buffer, HALT_COMMAND) THEN "Halt"
    ELSE IF SliceEq(buffer, STAT_COMMAND) THEN "Stat"
    ELSE IF SliceEq(buffer, RESET_COMMAND) THEN "Reset"
    ELSE "Config"

---------------------------------------------------------------------------
(* Touch-State Slot, packed form: TouchBuffer (touchbuffer.rs)             *)
(* A u64 is kept as its 8 bytes, most significant first, so that the       *)
(* shifts lose exactly the bits a 64-bit register loses.                   *)

RECURSIVE BitOr(_, _)
BitOr(a, b) ==
    IF a = 0 THEN b
    ELSE IF b = 0 THEN a
    ELSE (IF a % 2 = 1 \/ b % 2 = 1 THEN 1 ELSE 0) + 2 * BitOr(a \div 2, b \div 2)

U64Zero == <<0, 0, 0, 0, 0, 0, 0, 0>>
\* combined |= u64::from(val)
U64OrByte(w, val) == [w EXCEPT ![8] = BitOr(w[8], val)]
\* combined <<= 8
U64Shl8(w) == <<w[2], w[3], w[4], w[5], w[6], w[7], w[8], 0>>
\* val.to_be_bytes()
to_be_bytes(w) == w
\* val.to_le_bytes()
to_le_bytes(w) == [i \in 1..8 |-> w[9 - i]]

\* The loop of store over buf[1..8] (Rust indices), i.e. buf[2]..buf[8] here.
RECURSIVE Pack(_, _, _)
Pack(combined, buf, i) ==
    IF i > 8 THEN combined
    ELSE Pack(U64Shl8(U64OrByte(combined, buf[i])), buf, i + 1)

\* A store that rejects only short input.
store_short_only(data, buf) ==
    IF Len(buf) < 9 THEN data ELSE Pack(U64Zero, buf, 2)

\* TouchBuffer::store: the new value of self.data.
store(data, buf) ==
    IF Len(buf) # 9 THEN data ELSE Pack(U64Zero, buf, 2)

\* A load that takes the word's bytes least significant first.
load_le(data) ==
    <<Code["("]>> \o SubSeq(to_le_bytes(data), 1, 7) \o <<Code[")"]>>

\* TouchBuffer::load: the buffer it fills.
load(data) ==
    <<Code["("]>> \o SubSeq(to_be_bytes(data), 1, 7) \o <<Code[")"]>>

---------------------------------------------------------------------------
(* Stream handles                                                          *)

Ev(kind, bytes) == [kind |-> kind, bytes |-> bytes]
Data(bytes) == Ev("Data", bytes)
TimedOut == Ev("TimedOut", <<>>)
Interrupted == Ev("Interrupted", <<>>)
OtherError == Ev("Other", <<>>)
\* A read of 0 bytes: the end of the file.
Eof == Data(<<>>)

\* r.fill_buf(): the buffered bytes, refilled from the port when empty.
fill_buf(r) == IF r = <<>> THEN TimedOut ELSE Head(r)

\* The reader after fill_buf returned an error.
after_error(r) == IF r = <<>> THEN r ELSE Tail(r)

\* r.consume(used), after fill_buf returned a data chunk.
consume(r, used) ==
    IF used = 0 THEN r
    ELSE IF used = Len(Head(r).bytes) THEN Tail(r)
    ELSE <<Data(SubSeq(Head(r).bytes, used + 1, Len(Head(r).bytes)))>> \o Tail(r)

\* memchr::memchr(delim, available): the 1-based place of the first delim,
\* 0 for None.
memchr(delim, available) ==
    IF \E i \in 1..Len(available) : available[i] = delim
    THEN CHOOSE i \in 1..Len(available) :
            /\ available[i] = delim
            /\ \A j \in 1..(i - 1) : available[j] # delim
    ELSE 0

\* A skip_until that stops before the delimiter instead of after it.
RECURSIVE skip_until_keep(_, _, _)
skip_until_keep(r, delim, read) ==
    LET e == fill_buf(r) IN
    IF e.kind = "Interrupted" THEN skip_until_keep(Tail(r), delim, read)
    ELSE IF e.kind # "Data" THEN [res |-> e.kind, n |-> 0, r |-> after_error(r)]
    ELSE LET k == memchr(delim, e.bytes)
             used == IF k > 0 THEN k - 1 ELSE Len(e.bytes)
             r2 == consume(r, used)
         IN  IF k > 0 \/ used = 0
             THEN [res |-> "Ok", n |-> read + used, r |-> r2]
             ELSE skip_until_keep(r2, delim, read + used)

\* io::skip_until(r, delim), entered with `read` bytes already skipped.
RECURSIVE skip_until(_, _, _)
skip_until(r, delim, read) ==
    LET e == fill_buf(r) IN
    IF e.kind = "Interrupted" THEN skip_until(Tail(r), delim, read)
    ELSE IF e.kind # "Data" THEN [res |-> e.kind, n |-> 0, r |-> after_error(r)]
    ELSE LET k == memchr(delim, e.bytes)
             used == IF k > 0 THEN k ELSE Len(e.bytes)
             r2 == consume(r, used)
         IN  IF k > 0 \/ used = 0
             THEN [res |-> "Ok", n |-> read + used, r |-> r2]
             ELSE skip_until(r2, delim, read + used)

\* A read_until that gives back an emptied buf when it fails.
RECURSIVE read_until_reset(_, _, _, _)
read_until_reset(r, delim, buf, read) ==
    LET e == fill_buf(r) IN
    IF e.kind = "Interrupted" THEN read_until_reset(Tail(r), delim, buf, read)
    ELSE IF e.kind # "Data"
         THEN [res |-> e.kind, n |-> 0, r |-> after_error(r), buf |-> <<>>]
    ELSE LET k == memchr(delim, e.bytes)
             used == IF k > 0 THEN k ELSE Len(e.bytes)
             r2 == consume(r, used)
             buf2 == buf \o SubSeq(e.bytes, 1, used)
         IN  IF k > 0 \/ used = 0
             THEN [res |-> "Ok", n |-> read + used, r |-> r2, buf |-> buf2]
             ELSE read_until_reset(r2, delim, buf2, read + used)

\* reader.read_until(delim, buf), entered with `read` bytes already read.
\* The bytes appended before an error stay in buf.
RECURSIVE read_until(_, _, _, _)
read_until(r, delim, buf, read) ==
    LET e == fill_buf(r) IN
    IF e.kind = "Interrupted" THEN read_until(Tail(r), delim, buf, read)
    ELSE IF e.kind # "Data"
         THEN [res |-> e.kind, n |-> 0, r |-> after_error(r), buf |-> buf]
    ELSE LET k == memchr(delim, e.bytes)
             used == IF k > 0 THEN k ELSE Len(e.bytes)
             r2 == consume(r, used)
             buf2 == buf \o SubSeq(e.bytes, 1, used)
         IN  IF k > 0 \/ used = 0
             THEN [res |-> "Ok", n |-> read + used, r |-> r2, buf |-> buf2]
             ELSE read_until(r2, delim, buf2, read + used)

---------------------------------------------------------------------------
(* Packet Framer: read_packet                                              *)
(* res is "Ok", the kind of the error returned, or "Pending": the link is  *)
(* silent and the call retries on TimedOut for ever, without returning.    *)

\* The second loop of read_packet.
RECURSIVE read_packet_close(_, _, _)
read_packet_close(buffer, r, packet) ==
    IF r = <<>> THEN [res |-> "Pending", buf |-> buffer, r |-> r]
    ELSE LET u == read_until(r, packet.close, buffer, 0) IN
         IF u.res = "Ok" THEN [res |-> "Ok", buf |-> u.buf, r |-> u.r]
         ELSE IF u.res = "TimedOut" THEN read_packet_close(u.buf, u.r, packet)
         ELSE [res |-> u.res, buf |-> u.buf, r |-> u.r]

\* The first loop of read_packet, then the second.
RECURSIVE read_packet_open(_, _, _)
read_packet_open(buffer, r, packet) ==
    IF r = <<>> THEN [res |-> "Pending", buf |-> buffer, r |-> r]
    ELSE LET s == skip_until(r, packet.open, 0) IN
         IF s.res = "Ok" THEN read_packet_close(buffer, s.r, packet)
         ELSE IF s.res = "TimedOut" THEN read_packet_open(buffer, s.r, packet)
         ELSE [res |-> s.res, buf |-> buffer, r |-> s.r]

\* read_packet(buffer, reader, packet): buffer.clear(), push(open), loops.
read_packet(buffer, reader, packet) ==
    read_packet_open(<<packet.open>>, reader, packet)

---------------------------------------------------------------------------
(* The proxy process: run_touch_proxy, stat_mode, drain_and_reset          *)
(*                                                                         *)
(* pc of the main thread:                                                  *)
(*   "drain_write"  drain_and_reset, before its two writes                 *)
(*   "drain_read"   drain_and_reset, in its read loop                      *)
(*   "relay"        the relay loop, before read_packet on the display link *)
(*   "reply"        the Config arm, before read_packet on the sensor link  *)
(*   "scope"        stat_mode, waiting in thread::scope for its threads    *)
(*   "exit_err"     run_touch_proxy returned an error                      *)
(*   "exit_panic"   thread::scope panicked: a scoped thread had panicked   *)
(* A call of read_packet is one step, taken when the call returns; a       *)
(* thread whose call is "Pending" stays inside read_packet.  The call      *)
(* clears its buffer and pushes the open delimiter as it starts, so a      *)
(* thread waiting in read_packet holds a buffer of that one byte.          *)

\* What the peers send: whole frames, or a failure of the port.
SampleA == <<40, 49, 50, 51, 52, 53, 54, 55, 41>>          \* (1234567)
SampleB == <<40, 55, 54, 53, 52, 51, 50, 49, 41>>          \* (7654321)
ShortReply == <<40, 111, 107, 41>>                         \* (ok)
ConfigFrame == <<123, 99, 102, 103, 88, 125>>              \* {cfgX}
AllsFrames == {STAT_COMMAND, HALT_COMMAND, RESET_COMMAND, ConfigFrame}
AdxFrames == {SampleA, SampleB, ShortReply}

\* Events a link holds unread at most.
MaxQueue == 1
\* The history counts the frames one drain_and_reset discarded up to here.
MaxDrained == 2
\* The history numbers the samples of one session up to here.
MaxPublished == 2

Unlocked == [writer |-> FALSE, readers |-> 0]
ZeroBuffer == [i \in 1..TOUCH_PACKET_SIZE |-> 0]
IdleProducer == [pc |-> "idle", local_buf |-> <<>>, idx |-> 0]

\* A counter of a part of the history: it counts when that part is kept
\* in detail, and stops counting at its bound.
Counted(part, n, max) == IF part \in detail /\ n < max THEN n + 1 ELSE n

\* A frame noted in the history, when that part is kept in detail.
Noted(part, frame) == IF part \in detail THEN frame ELSE <<>>

\* The history:
\*   published  the samples the producer has copied whole into the slot
\* and, for the parts kept in detail,
\*   drained    ("drain") the number of read_until calls of the current
\*              (or last) drain_and_reset that returned Ok ("read {}" in
\*              its log)
\*   seq        ("order") the number of samples the producer has published
\*   tags       ("order") for each byte of the slot, the number of the
\*              publish that wrote it (0: the initial value)
\*   written    ("order") the tags of the bytes the publisher wrote last
\*   passed     ("watch") the last frame the watcher framed and passed over
NoHistory ==
    [published |-> {}, drained |-> 0, seq |-> 0,
     tags |-> [i \in 1..TOUCH_PACKET_SIZE |-> 0],
     written |-> [i \in 1..TOUCH_PACKET_SIZE |-> 0],
     passed |-> <<>>]
Exited == pc \in {"exit_err", "exit_panic"}

ProxyInit ==
    /\ pc = "drain_write"
    /\ alls_in = <<>>
    /\ adx_in = <<>>
    /\ alls_out = <<>>
    /\ adx_out = <<>>
    /\ command_buffer = <<>>
    /\ run_flag = TRUE
    /\ state_buffer = ZeroBuffer
    /\ lock = Unlocked
    /\ prod = IdleProducer
    /\ publ = "idle"
    /\ watch = "idle"
    /\ hist = NoHistory

sessionVars == <<run_flag, state_buffer, lock, prod, publ, watch, hist>>
unitVars == <<unit, detail, slotVars, framerVars, classifierVars>>

\* What a link of the proxy can hold unread, and read_packet on each such
\* reader, worked out once: framed(r, packet) is read_packet(_, r, packet).
ProxyEvents == {Data(f) : f \in AllsFrames \cup AdxFrames} \cup {OtherError}
ProxyReaders == UNION {[1..n -> ProxyEvents] : n \in 0..MaxQueue}
FramedTable ==
    { <<r, packet, read_packet(<<>>, r, packet)>> :
        r \in ProxyReaders, packet \in {ALLS_PACKET, ADX_PACKET} }
framed(r, packet) ==
    (CHOOSE t \in FramedTable : t[1] = r /\ t[2] = packet)[3]

\* A scope that waits for the watcher only.
SessionOver_watcher ==
    watch \in {"done", "failed"}

\* All three threads of the session have ended.
SessionOver ==
    /\ prod.pc \in {"done", "panic"}
    /\ publ \in {"done", "panic"}
    /\ watch \in {"done", "failed"}

(* ---- the peers ---- *)

AllsSends ==
    /\ unit = "proxy" /\ ~Exited
    /\ Len(alls_in) < MaxQueue
    /\ \E f \in AllsFrames : alls_in' = Append(alls_in, Data(f))
    /\ UNCHANGED <<pc, adx_in, alls_out, adx_out, command_buffer, sessionVars, unitVars>>

AdxSends ==
    /\ unit = "proxy" /\ ~Exited
    /\ Len(adx_in) < MaxQueue
    /\ \E f \in AdxFrames : adx_in' = Append(adx_in, Data(f))
    /\ UNCHANGED <<pc, alls_in, alls_out, adx_out, command_buffer, sessionVars, unitVars>>

AllsPortFails ==
    /\ unit = "proxy" /\ ~Exited
    /\ Len(alls_in) < MaxQueue
    /\ alls_in' = Append(alls_in, OtherError)
    /\ UNCHANGED <<pc, adx_in, alls_out, adx_out, command_buffer, sessionVars, unitVars>>

AdxPortFails ==
    /\ unit = "proxy" /\ ~Exited
    /\ Len(adx_in) < MaxQueue
    /\ adx_in' = Append(adx_in, OtherError)
    /\ UNCHANGED <<pc, alls_in, alls_out, adx_out, command_buffer, sessionVars, unitVars>>

(* ---- drain_and_reset ---- *)

\* Both write_all calls succeed.
DrainWrite ==
    /\ unit = "proxy" /\ pc = "drain_write"
    /\ adx_out' = adx_out \o <<RESET_COMMAND, HALT_COMMAND>>
    /\ pc' = "drain_read"
    /\ hist' = [hist EXCEPT !.drained = 0]
    /\ UNCHANGED <<alls_in, adx_in, alls_out, command_buffer,
                   run_flag, state_buffer, lock, prod, publ, watch, unitVars>>

\* The first or the second write_all fails: `?` returns the error.
DrainWriteFails ==
    /\ unit = "proxy" /\ pc = "drain_write"
    /\ \/ adx_out' = adx_out
       \/ adx_out' = Append(adx_out, RESET_COMMAND)
    /\ pc' = "exit_err"
    /\ UNCHANGED <<alls_in, adx_in, alls_out, command_buffer, sessionVars, unitVars>>

\* A read loop that returns after the first frame it read.
DrainRead_once ==
    /\ unit = "proxy" /\ pc = "drain_read"
    /\ LET u == read_until(adx_in, ADX_PACKET.close, <<>>, 0) IN
       /\ adx_in' = u.r
       /\ pc' = IF u.res \in {"Ok", "TimedOut"} THEN "relay" ELSE "exit_err"
       /\ command_buffer' = IF u.res \in {"Ok", "TimedOut"} THEN <<ALLS_PACKET.open>>
                            ELSE command_buffer
       /\ hist' = IF u.res = "Ok"
                  THEN [hist EXCEPT !.drained = Counted("drain", @, MaxDrained)]
                  ELSE hist
    /\ UNCHANGED <<alls_in, alls_out, adx_out,
                   run_flag, state_buffer, lock, prod, publ, watch, unitVars>>

\* One turn of the read loop: buf is empty at each read_until.
DrainRead ==
    /\ unit = "proxy" /\ pc = "drain_read"
    /\ LET u == read_until(adx_in, ADX_PACKET.close, <<>>, 0) IN
       /\ adx_in' = u.r
       /\ pc' = IF u.res = "Ok" THEN "drain_read"
                ELSE IF u.res = "TimedOut" THEN "relay"
                ELSE "exit_err"
       /\ command_buffer' = IF u.res = "TimedOut" THEN <<ALLS_PACKET.open>>
                            ELSE command_buffer
       /\ hist' = IF u.res = "Ok"
                  THEN [hist EXCEPT !.drained = Counted("drain", @, MaxDrained)]
                  ELSE hist
    /\ UNCHANGED <<alls_in, alls_out, adx_out,
                   run_flag, state_buffer, lock, prod, publ, watch, unitVars>>

(* ---- the relay loop of run_touch_proxy ---- *)

\* The producer's length test on a framed packet: TRUE goes on to the copy,
\* FALSE logs and continues.
producer_accepts(local_buf) == Len(local_buf) = TOUCH_PACKET_SIZE

\* A session that starts with the flag already halted.
SessionStart_halted ==
    /\ run_flag' = FALSE
    /\ state_buffer' = ZeroBuffer
    /\ lock' = Unlocked
    /\ prod' = [pc |-> "check", local_buf |-> <<>>, idx |-> 0]
    /\ publ' = "check"
    /\ watch' = "read"
    /\ hist' = NoHistory

\* The state stat_mode starts its three threads in.
SessionStart ==
    /\ run_flag' = TRUE
    /\ state_buffer' = ZeroBuffer
    /\ lock' = Unlocked
    /\ prod' = [pc |-> "check", local_buf |-> <<>>, idx |-> 0]
    /\ publ' = "check"
    /\ watch' = "read"
    /\ hist' = NoHistory

\* read_packet on the display link returns; the frame is forwarded to the
\* sensor link and classified.
RelayRead ==
    /\ unit = "proxy" /\ pc = "relay"
    /\ LET p == framed(alls_in, ALLS_PACKET) IN
       /\ p.res # "Pending"
       /\ alls_in' = p.r
       /\ alls_out' = <<>>
       /\ IF p.res # "Ok"
          THEN /\ pc' = "exit_err"
               /\ adx_out' = <<>>
               /\ command_buffer' = p.buf
               /\ UNCHANGED sessionVars
          ELSE /\ adx_out' = <<p.buf>>
               /\ IF get_command_type(p.buf) = "Config"
                  THEN /\ pc' = "reply"
                       /\ command_buffer' = <<ADX_PACKET.open>>
                       /\ UNCHANGED sessionVars
                  ELSE IF get_command_type(p.buf) = "Stat"
                  THEN /\ pc' = "scope"
                       /\ command_buffer' = p.buf
                       /\ SessionStart
                  ELSE /\ pc' = "relay"
                       /\ command_buffer' = <<ALLS_PACKET.open>>
                       /\ UNCHANGED sessionVars
    /\ UNCHANGED <<adx_in, unitVars>>

\* As RelayRead, but adx_writer.write_all fails.
RelayForwardFails ==
    /\ unit = "proxy" /\ pc = "relay"
    /\ LET p == framed(alls_in, ALLS_PACKET) IN
       /\ p.res = "Ok"
       /\ alls_in' = p.r
       /\ command_buffer' = p.buf
    /\ alls_out' = <<>>
    /\ adx_out' = <<>>
    /\ pc' = "exit_err"
    /\ UNCHANGED <<adx_in, sessionVars, unitVars>>

\* A Config arm that writes the forwarded command back to the display.
RelayReply_echo ==
    /\ unit = "proxy" /\ pc = "reply"
    /\ LET p == framed(adx_in, ADX_PACKET) IN
       /\ p.res # "Pending"
       /\ adx_in' = p.r
       /\ IF p.res # "Ok"
          THEN pc' = "exit_err" /\ command_buffer' = p.buf /\ UNCHANGED alls_out
          ELSE /\ pc' = "relay"
               /\ alls_out' = adx_out[1]
               /\ command_buffer' = <<ALLS_PACKET.open>>
    /\ UNCHANGED <<alls_in, adx_out, sessionVars, unitVars>>

\* The Config arm: the sensor's reply is framed and written to the display.
RelayReply ==
    /\ unit = "proxy" /\ pc = "reply"
    /\ LET p == framed(adx_in, ADX_PACKET) IN
       /\ p.res # "Pending"
       /\ adx_in' = p.r
       /\ IF p.res # "Ok"
          THEN pc' = "exit_err" /\ command_buffer' = p.buf /\ UNCHANGED alls_out
          ELSE /\ pc' = "relay"
               /\ alls_out' = p.buf
               /\ command_buffer' = <<ALLS_PACKET.open>>
    /\ UNCHANGED <<alls_in, adx_out, sessionVars, unitVars>>

\* As RelayReply, but alls_writer.write_all or flush fails.
RelayReplyFails ==
    /\ unit = "proxy" /\ pc = "reply"
    /\ LET p == framed(adx_in, ADX_PACKET) IN
       /\ p.res = "Ok"
       /\ adx_in' = p.r
       /\ command_buffer' = p.buf
       /\ \/ UNCHANGED alls_out         \* write_all fails
          \/ alls_out' = p.buf          \* flush fails
    /\ pc' = "exit_err"
    /\ UNCHANGED <<alls_in, adx_out, sessionVars, unitVars>>

(* ---- stat_mode: the producer thread ---- *)
(* prod.pc: "check" (the while condition), "read" (in read_packet, which   *)
(* has cleared local_buf and pushed the open delimiter),                   *)
(* "lock" (before state_buffer.write()), "copy" (holding the write lock,   *)
(* idx bytes copied), "done", "panic".                                     *)

\* A loop that goes on whatever the flag says.
keeps_running_always(flag) == TRUE

\* while run_flag.load(Ordering::Relaxed)
keeps_running(flag) == flag

ProducerCheck ==
    /\ unit = "proxy" /\ pc = "scope" /\ prod.pc = "check"
    /\ prod' = IF keeps_running(run_flag)
               THEN [prod EXCEPT !.pc = "read", !.local_buf = <<ADX_PACKET.open>>]
               ELSE [prod EXCEPT !.pc = "done"]
    /\ UNCHANGED <<pc, alls_in, adx_in, alls_out, adx_out, command_buffer,
                   run_flag, state_buffer, lock, publ, watch, hist, unitVars>>

\* read_packet(...).unwrap(), then the length test.
ProducerRead ==
    /\ unit = "proxy" /\ pc = "scope" /\ prod.pc = "read"
    /\ LET p == framed(adx_in, ADX_PACKET) IN
       /\ p.res # "Pending"
       /\ adx_in' = p.r
       /\ prod' = [pc |-> IF p.res # "Ok" THEN "panic"
                          ELSE IF producer_accepts(p.buf) THEN "lock"
                          ELSE "check",
                   local_buf |-> p.buf,
                   idx |-> 0]
    /\ UNCHANGED <<pc, alls_in, alls_out, adx_out, command_buffer,
                   run_flag, state_buffer, lock, publ, watch, hist, unitVars>>

\* A state_buffer.write() that is granted whatever the lock's state.
write_lock_always(l) == TRUE

\* state_buffer.write() is granted when nobody holds the lock.
write_lock_free(l) == ~l.writer /\ l.readers = 0

ProducerLock ==
    /\ unit = "proxy" /\ pc = "scope" /\ prod.pc = "lock"
    /\ write_lock_free(lock)
    /\ lock' = [lock EXCEPT !.writer = TRUE]
    /\ prod' = [prod EXCEPT !.pc = "copy"]
    /\ UNCHANGED <<pc, alls_in, adx_in, alls_out, adx_out, command_buffer,
                   run_flag, state_buffer, publ, watch, hist, unitVars>>

\* copy_from_slice, a byte at a time; after the last byte the guard is
\* dropped and the sample is published.
ProducerCopy ==
    /\ unit = "proxy" /\ pc = "scope" /\ prod.pc = "copy"
    /\ state_buffer' = [state_buffer EXCEPT ![prod.idx + 1] = prod.local_buf[prod.idx + 1]]
    /\ IF prod.idx + 1 = TOUCH_PACKET_SIZE
       THEN /\ prod' = [prod EXCEPT !.pc = "check", !.idx = 0]
            /\ lock' = [lock EXCEPT !.writer = FALSE]
            /\ hist' = [hist EXCEPT
                            !.published = @ \cup {prod.local_buf},
                            !.seq = Counted("order", @, MaxPublished),
                            !.tags[prod.idx + 1] = Counted("order", hist.seq, MaxPublished)]
       ELSE /\ prod' = [prod EXCEPT !.idx = @ + 1]
            /\ hist' = [hist EXCEPT
                            !.tags[prod.idx + 1] = Counted("order", hist.seq, MaxPublished)]
            /\ UNCHANGED lock
    /\ UNCHANGED <<pc, alls_in, adx_in, alls_out, adx_out, command_buffer,
                   run_flag, publ, watch, unitVars>>

(* ---- stat_mode: the publisher thread ---- *)
(* publ: "check" (the while condition), "lock" (before                     *)
(* state_buffer.read()), "write" (holding the read lock, before            *)
(* write_all), "done", "panic".                                            *)

PublisherCheck ==
    /\ unit = "proxy" /\ pc = "scope" /\ publ = "check"
    /\ publ' = IF keeps_running(run_flag) THEN "lock" ELSE "done"
    /\ UNCHANGED <<pc, alls_in, adx_in, alls_out, adx_out, command_buffer,
                   run_flag, state_buffer, lock, prod, watch, hist, unitVars>>

\* A state_buffer.read() that is granted whatever the lock's state.
read_lock_always(l) == TRUE

\* state_buffer.read() is granted unless the writer holds the lock.
read_lock_free(l) == ~l.writer

PublisherLock ==
    /\ unit = "proxy" /\ pc = "scope" /\ publ = "lock"
    /\ read_lock_free(lock)
    /\ lock' = [lock EXCEPT !.readers = @ + 1]
    /\ publ' = "write"
    /\ UNCHANGED <<pc, alls_in, adx_in, alls_out, adx_out, command_buffer,
                   run_flag, state_buffer, prod, watch, hist, unitVars>>

\* write_all(locked_buf.as_ref()) succeeds, the guard is dropped, flush
\* succeeds.
PublisherWrite ==
    /\ unit = "proxy" /\ pc = "scope" /\ publ = "write"
    /\ alls_out' = state_buffer
    /\ hist' = [hist EXCEPT !.written = hist.tags]
    /\ lock' = [lock EXCEPT !.readers = @ - 1]
    /\ publ' = "check"
    /\ UNCHANGED <<pc, alls_in, adx_in, adx_out, command_buffer,
                   run_flag, state_buffer, prod, watch, unitVars>>

\* write_all fails, or it succeeds and flush fails: unwrap panics,
\* unwinding drops the guard.
PublisherWriteFails ==
    /\ unit = "proxy" /\ pc = "scope" /\ publ = "write"
    /\ \/ UNCHANGED <<alls_out, hist>>
       \/ alls_out' = state_buffer /\ hist' = [hist EXCEPT !.written = hist.tags]
    /\ lock' = [lock EXCEPT !.readers = @ - 1]
    /\ publ' = "panic"
    /\ UNCHANGED <<pc, alls_in, adx_in, adx_out, command_buffer,
                   run_flag, state_buffer, prod, watch, unitVars>>

(* ---- stat_mode: the watcher thread ---- *)
(* watch: "read" (in read_packet), "done" (broke out on Halt), "failed"    *)
(* (returned on an error of read_packet).                                  *)

\* A watcher that takes every frame for {HALT}.
WatcherRead_any ==
    /\ unit = "proxy" /\ pc = "scope" /\ watch = "read"
    /\ LET p == framed(alls_in, ALLS_PACKET) IN
       /\ p.res # "Pending"
       /\ alls_in' = p.r
       /\ IF p.res # "Ok"
          THEN /\ watch' = IF p.res = "TimedOut" THEN "read" ELSE "failed"
               /\ UNCHANGED <<run_flag, hist>>
          ELSE watch' = "done" /\ run_flag' = FALSE /\ UNCHANGED hist
    /\ UNCHANGED <<pc, adx_in, alls_out, adx_out, command_buffer,
                   state_buffer, lock, prod, publ, unitVars>>

WatcherRead ==
    /\ unit = "proxy" /\ pc = "scope" /\ watch = "read"
    /\ LET p == framed(alls_in, ALLS_PACKET) IN
       /\ p.res # "Pending"
       /\ alls_in' = p.r
       /\ IF p.res # "Ok"
          THEN /\ watch' = IF p.res = "TimedOut" THEN "read" ELSE "failed"
               /\ UNCHANGED <<run_flag, hist>>
          ELSE IF get_command_type(p.buf) = "Halt"
          THEN watch' = "done" /\ run_flag' = FALSE /\ UNCHANGED hist
          ELSE /\ watch' = "read"
               /\ hist' = [hist EXCEPT !.passed = Noted("watch", p.buf)]
               /\ UNCHANGED run_flag
    /\ UNCHANGED <<pc, adx_in, alls_out, adx_out, command_buffer,
                   state_buffer, lock, prod, publ, unitVars>>

(* ---- stat_mode: the end of thread::scope ---- *)

\* All three threads have ended.  The scope panics when one of them
\* panicked; otherwise stat_mode goes on to drain_and_reset.  The flag and
\* the slot are dropped.
ScopeJoin ==
    /\ unit = "proxy" /\ pc = "scope"
    /\ SessionOver
    /\ pc' = IF prod.pc = "panic" \/ publ = "panic" THEN "exit_panic" ELSE "drain_write"
    /\ run_flag' = TRUE
    /\ state_buffer' = ZeroBuffer
    /\ lock' = Unlocked
    /\ prod' = IdleProducer
    /\ publ' = "idle"
    /\ watch' = "idle"
    /\ hist' = NoHistory
    /\ UNCHANGED <<alls_in, adx_in, alls_out, adx_out, command_buffer, unitVars>>

---------------------------------------------------------------------------
(* The Touch-State Slot as a unit: the packed form (TouchBuffer) and the   *)
(* lock-guarded form (stat_mode's state_buffer) are given the same         *)
(* publishes and observed together.  tb_out and rw_out hold what was       *)
(* observed since the last publish, <<>> when nothing was.                 *)

\* Frames as read_packet hands them to the producer: the open delimiter
\* first; 9 bytes or not; one cut short by the end of the file.
SlotInputs ==
    { SampleA, SampleB, ShortReply,
      <<40, 65, 66, 67, 68, 69, 70, 71, 41>>,              \* (ABCDEFG)
      <<40, 255, 255, 255, 255, 255, 255, 255, 41>>,
      <<40, 0, 0, 0, 0, 0, 0, 0, 41>>,
      <<40, 128, 0, 255, 1, 0, 254, 127, 41>>,
      <<40, 0, 0, 0, 0, 0, 0, 1, 41>>,
      <<40, 71, 70, 69, 68, 67, 66, 65, 41>>,              \* (GFEDCBA)
      <<40, 41, 40, 41, 40, 41, 40, 41, 41>>,              \* ()()()())
      <<40>>,
      <<40, 49, 50, 51, 52, 53, 54, 41>>,                  \* (123456)
      <<40, 49, 50, 51, 52, 53, 54, 55, 56, 41>>,          \* (12345678)
      <<40, 49, 50, 51, 52, 53, 54, 55, 56>> }             \* (12345678

SlotInit ==
    /\ tb_data = U64Zero
    /\ tb_arg = <<>>
    /\ tb_out = <<>>
    /\ rw_out = <<>>

\* buf.store(f) on the packed form; the producer's length test and copy on
\* the lock-guarded form.
SlotPublish ==
    /\ unit = "slot"
    /\ \E f \in SlotInputs :
        /\ tb_arg' = f
        /\ tb_data' = store(tb_data, f)
        /\ state_buffer' = IF producer_accepts(f) THEN f ELSE state_buffer
    /\ tb_out' = <<>>
    /\ rw_out' = <<>>
    /\ UNCHANGED <<unit, detail, proxyVars, framerVars, classifierVars>>

\* buf.load(&mut output) on the packed form; the publisher's read of the
\* lock-guarded array.
SlotObserve ==
    /\ unit = "slot"
    /\ tb_out' = load(tb_data)
    /\ rw_out' = state_buffer
    /\ UNCHANGED <<unit, detail, proxyVars, state_buffer, tb_data, tb_arg, framerVars, classifierVars>>

---------------------------------------------------------------------------
(* The Packet Framer as a unit: read_packet on a reader drawn from the     *)
(* streams of at most MaxEvents events.                                    *)

MaxEvents == 3

\* The chunks a refill can return, for a delimiter pair: noise, stray
\* delimiters, pieces of a frame, a frame, a frame inside noise.
FramerChunks(packet) ==
    LET o == packet.open
        c == packet.close
    IN  { <<120>>, <<c>>, <<o>>, <<o, 97>>, <<97, c>>, <<o, 97, c>>,
          <<120, o, 98, c, 120>> }

FramerEvents(packet) ==
    {Data(b) : b \in FramerChunks(packet)} \cup {Eof, TimedOut, Interrupted, OtherError}

FramerReaders(packet) ==
    UNION {[1..n -> FramerEvents(packet)] : n \in 0..MaxEvents}

NotCalled == [res |-> "NotCalled", r |-> <<>>]

FramerInit ==
    /\ fr_packet = ALLS_PACKET
    /\ fr_reader = <<>>
    /\ fr_buffer = <<>>
    /\ fr_result = NotCalled

\* The caller's buffer is reused: it holds what an earlier call left.
FramerUnitInit ==
    /\ fr_packet \in {ALLS_PACKET, ADX_PACKET}
    /\ fr_reader \in FramerReaders(fr_packet)
    /\ fr_buffer \in {<<>>, <<120, 120>>}
    /\ fr_result = NotCalled

\* read_packet(&mut buffer, reader, &packet) is called: it returns Ok or
\* an error, or (res "Pending") retries for ever on the silent link.
FramerCall ==
    /\ unit = "framer"
    /\ fr_result = NotCalled
    /\ LET p == read_packet(fr_buffer, fr_reader, fr_packet) IN
       /\ fr_buffer' = p.buf
       /\ fr_result' = [res |-> p.res, r |-> p.r]
    /\ UNCHANGED <<unit, detail, proxyVars, state_buffer, slotVars, fr_packet, fr_reader, classifierVars>>

---------------------------------------------------------------------------
(* The Command Classifier as a unit                                        *)

\* The three literals, a Config frame and {halt}, each as it is, cut
\* short, extended by a byte, or with one byte replaced.
ClassifierBases ==
    {HALT_COMMAND, STAT_COMMAND, RESET_COMMAND, ConfigFrame,
     <<123, 104, 97, 108, 116, 125>>}
EditBytes == {104, 120, 123, 125}
ClassifierInputs ==
    UNION { {SubSeq(b, 1, k) : k \in 0..Len(b)}
            \cup {b \o <<x>> : x \in EditBytes}
            \cup {[b EXCEPT ![i] = x] : i \in 1..Len(b), x \in EditBytes}
          : b \in ClassifierBases }

ClassifierInit ==
    /\ cl_buffer = <<>>
    /\ cl_result = "NotCalled"

ClassifierUnitInit ==
    /\ cl_buffer \in ClassifierInputs
    /\ cl_result = "NotCalled"

ClassifierCall ==
    /\ unit = "classifier"
    /\ cl_result = "NotCalled"
    /\ cl_result' = get_command_type(cl_buffer)
    /\ UNCHANGED <<unit, detail, proxyVars, state_buffer, slotVars, framerVars, cl_buffer>>

---------------------------------------------------------------------------
(* Specifications                                                          *)

ProxySteady ==
    \/ AllsSends \/ AdxSends
    \/ DrainWrite \/ DrainRead
    \/ RelayRead \/ RelayReply
    \/ ProducerCheck \/ ProducerRead \/ ProducerLock \/ ProducerCopy
    \/ PublisherCheck \/ PublisherLock \/ PublisherWrite
    \/ WatcherRead
    \/ ScopeJoin

ProxyFaults ==
    \/ AllsPortFails \/ AdxPortFails
    \/ DrainWriteFails \/ RelayForwardFails \/ RelayReplyFails
    \/ PublisherWriteFails

SlotNext == SlotPublish \/ SlotObserve

\* The proxy process, and the Touch-State Slot unit beside it.
Init ==
    /\ unit \in {"proxy", "slot"}
    /\ detail = {}
    /\ ProxyInit /\ SlotInit /\ FramerInit /\ ClassifierInit

Next == ProxySteady \/ ProxyFaults \/ SlotNext

Spec == Init /\ [][Next]_vars

\* The Touch-State Slot unit alone.
SlotSpecInit ==
    /\ unit = "slot"
    /\ detail = {}
    /\ ProxyInit /\ SlotInit /\ FramerInit /\ ClassifierInit

SlotSpec == SlotSpecInit /\ [][SlotNext]_vars

\* The Packet Framer unit.
FramerSpecInit ==
    /\ unit = "framer"
    /\ detail = {}
    /\ ProxyInit /\ SlotInit /\ FramerUnitInit /\ ClassifierInit

FramerSpec == FramerSpecInit /\ [][FramerCall]_vars

\* The Command Classifier unit.
ClassifierSpecInit ==
    /\ unit = "classifier"
    /\ detail = {}
    /\ ProxyInit /\ SlotInit /\ FramerInit /\ ClassifierUnitInit

ClassifierSpec == ClassifierSpecInit /\ [][ClassifierCall]_vars

\* The proxy in the streaming scenario of the specification: the display
\* sends {STAT} and {HALT}, the sensor keeps sending 9-byte samples, no
\* port fails, and every thread that can run does run in the end.
ScenarioAllsSends ==
    /\ unit = "proxy" /\ ~Exited
    /\ Len(alls_in) < MaxQueue
    /\ \E f \in {STAT_COMMAND, HALT_COMMAND} : alls_in' = Append(alls_in, Data(f))
    /\ UNCHANGED <<pc, adx_in, alls_out, adx_out, command_buffer, sessionVars, unitVars>>

ScenarioAdxSends ==
    /\ unit = "proxy" /\ ~Exited
    /\ Len(adx_in) < MaxQueue
    /\ \E f \in {SampleA, SampleB} : adx_in' = Append(adx_in, Data(f))
    /\ UNCHANGED <<pc, alls_in, alls_out, adx_out, command_buffer, sessionVars, unitVars>>

Producer == ProducerCheck \/ ProducerRead \/ ProducerLock \/ ProducerCopy
Publisher == PublisherCheck \/ PublisherLock \/ PublisherWrite
MainThread == DrainWrite \/ DrainRead \/ RelayRead \/ ScopeJoin

ThreadFairness ==
    /\ WF_vars(Producer)
    /\ WF_vars(Publisher)
    /\ WF_vars(WatcherRead)
    /\ WF_vars(MainThread)

LiveInit ==
    /\ unit = "proxy"
    /\ detail = {}
    /\ ProxyInit /\ SlotInit /\ FramerInit /\ ClassifierInit

LiveNext ==
    \/ ScenarioAllsSends \/ ScenarioAdxSends
    \/ MainThread \/ Producer \/ Publisher \/ WatcherRead

LiveSpec ==
    LiveInit /\ [][LiveNext]_vars /\ ThreadFairness /\ WF_vars(ScenarioAdxSends)

\* The proxy with a part of its history kept in detail: the display sends
\* any of its frames, the sensor sends 9-byte samples, no port fails.
HistoryNext ==
    \/ AllsSends \/ ScenarioAdxSends
    \/ MainThread \/ RelayReply
    \/ Producer \/ Publisher \/ WatcherRead

\* ... the frames the watcher passes over.
WatchInit ==
    /\ unit = "proxy"
    /\ detail = {"watch"}
    /\ ProxyInit /\ SlotInit /\ FramerInit /\ ClassifierInit

WatchSpec == WatchInit /\ [][HistoryNext]_vars

\* ... the order of the samples published and written.
OrderInit ==
    /\ unit = "proxy"
    /\ detail = {"order"}
    /\ ProxyInit /\ SlotInit /\ FramerInit /\ ClassifierInit

OrderSpec == OrderInit /\ [][HistoryNext]_vars

\* The same scenario, but the sensor may fall silent at any time: every
\* thread that can run does run in the end, the peers owe nothing.
QuietSensorSpec ==
    LiveInit /\ [][LiveNext]_vars /\ ThreadFairness

---------------------------------------------------------------------------
(* drain_and_reset as a unit: the proxy starts on a sensor link that       *)
(* already holds a stream, and nothing more arrives.                       *)

\* What one refill of the sensor reader can return: a frame, two frames,
\* the two halves of a frame.
DrainChunks ==
    { SampleA, ShortReply, SampleA \o ShortReply,
      <<40, 49, 50>>, <<51, 52, 41>> }
DrainEvents == {Data(b) : b \in DrainChunks} \cup {TimedOut, Interrupted}

\* The events of a stream before its first timeout, and those after it.
\* A stream with no event left times out.
RECURSIVE BeforeTimeout(_)
BeforeTimeout(r) ==
    IF r = <<>> \/ Head(r).kind = "TimedOut" THEN <<>>
    ELSE <<Head(r)>> \o BeforeTimeout(Tail(r))
RECURSIVE AfterTimeout(_)
AfterTimeout(r) ==
    IF r = <<>> THEN <<>>
    ELSE IF Head(r).kind = "TimedOut" THEN Tail(r)
    ELSE AfterTimeout(Tail(r))

\* The bytes of the data chunks of a stream, in order.
RECURSIVE Flat(_)
Flat(r) ==
    IF r = <<>> THEN <<>>
    ELSE (IF Head(r).kind = "Data" THEN Head(r).bytes ELSE <<>>) \o Flat(Tail(r))

\* The number of sensor frames in a byte string made of whole frames; -1
\* when the bytes are not whole frames ( ... ) one after the other.
RECURSIVE WholeFrames(_, _)
WholeFrames(bytes, inside) ==
    IF bytes = <<>> THEN (IF inside THEN -1 ELSE 0)
    ELSE IF ~inside
         THEN (IF Head(bytes) = ADX_PACKET.open
               THEN WholeFrames(Tail(bytes), TRUE) ELSE -1)
    ELSE IF Head(bytes) = ADX_PACKET.open THEN -1
    ELSE IF Head(bytes) = ADX_PACKET.close
         THEN (LET n == WholeFrames(Tail(bytes), FALSE)
               IN  IF n < 0 THEN -1 ELSE n + 1)
    ELSE WholeFrames(Tail(bytes), TRUE)

\* The number of frames a stream yields before it times out.
FramesAhead(r) == WholeFrames(Flat(BeforeTimeout(r)), FALSE)

\* The streams that yield N whole frames, N >= 0, and then time out.
DrainStreams ==
    { r \in UNION {[1..n -> DrainEvents] : n \in 0..MaxEvents} :
        FramesAhead(r) >= 0 }

DrainInit ==
    /\ unit = "proxy"
    /\ detail = {"drain"}
    /\ pc = "drain_write"
    /\ alls_in = <<>>
    /\ adx_in \in DrainStreams
    /\ alls_out = <<>>
    /\ adx_out = <<>>
    /\ command_buffer = <<>>
    /\ run_flag = TRUE
    /\ state_buffer = ZeroBuffer
    /\ lock = Unlocked
    /\ prod = IdleProducer
    /\ publ = "idle"
    /\ watch = "idle"
    /\ hist = NoHistory
    /\ SlotInit /\ FramerInit /\ ClassifierInit

DrainNext == DrainWrite \/ DrainRead

DrainSpec == DrainInit /\ [][DrainNext]_vars

---------------------------------------------------------------------------
(* Properties                                                              *)

\* A Touch Sample on the wire: ( + 7 payload bytes + ).
WellFormedSample(f) ==
    Len(f) = 9 /\ f[1] = 40 /\ f[9] = 41

\* A stream that delivers bytes, with timeouts and interruptions between
\* them, and neither ends nor fails.
CleanStream(r) ==
    \A n \in 1..Len(r) :
        \/ r[n].kind \in {"TimedOut", "Interrupted"}
        \/ r[n].kind = "Data" /\ r[n].bytes # <<>>

\* bytes[i..j] is a well-formed frame: open delimiter, a body free of
\* delimiters, close delimiter.
FrameAt(bytes, i, j, packet) ==
    /\ i < j
    /\ bytes[i] = packet.open
    /\ bytes[j] = packet.close
    /\ \A k \in (i + 1)..(j - 1) : bytes[k] # packet.open /\ bytes[k] # packet.close

\* read_packet returned Ok with exactly this frame in the buffer.
Returned(frame) ==
    /\ fr_result.res = "Ok"
    /\ fr_buffer = frame
    /\ fr_buffer[1] = fr_packet.open
    /\ fr_buffer[Len(fr_buffer)] = fr_packet.close

\* C5 as stated: whatever the noise before a well-formed frame, read_packet
\* returns exactly that frame, delimiters first and last.
C5_FramerAnyNoise ==
    fr_result.res # "NotCalled" =>
        \A n \in 1..Len(fr_reader) :
            LET bytes == Flat(SubSeq(fr_reader, 1, n)) IN
            \A i, j \in 1..Len(bytes) :
                (CleanStream(SubSeq(fr_reader, 1, n)) /\ FrameAt(bytes, i, j, fr_packet))
                    => Returned(SubSeq(bytes, i, j))

\* C5, amended: when the noise before a well-formed frame holds no open
\* delimiter, read_packet returns exactly that frame, delimiters first and
\* last, for both delimiter pairs.
C5_FramerNoise ==
    fr_result.res # "NotCalled" =>
        \A n \in 1..Len(fr_reader) :
            LET bytes == Flat(SubSeq(fr_reader, 1, n)) IN
            \A i, j \in 1..Len(bytes) :
                (/\ CleanStream(SubSeq(fr_reader, 1, n))
                 /\ FrameAt(bytes, i, j, fr_packet)
                 /\ \A k \in 1..(i - 1) : bytes[k] # fr_packet.open)
                    => Returned(SubSeq(bytes, i, j))

\* Noise, a timeout, then a chunk with noise around the frame (b), on the
\* sensor link: the frame came back.
C5_Witness ==
    /\ fr_packet = ADX_PACKET
    /\ fr_reader = <<Data(<<120>>), TimedOut, Data(<<120, 40, 98, 41, 120>>)>>
    /\ fr_result.res = "Ok"
    /\ fr_buffer = <<40, 98, 41>>

\* C6: whenever read_packet returns successfully the buffer is a fully
\* delimited frame: at least 2 bytes, open delimiter first, close last.
C6_NoPartialFrame ==
    fr_result.res = "Ok" =>
        /\ Len(fr_buffer) >= 2
        /\ fr_buffer[1] = fr_packet.open
        /\ fr_buffer[Len(fr_buffer)] = fr_packet.close

\* C7: the classifier answers Halt, Stat or Reset exactly on the bytes
\* {HALT}, {STAT}, {RSET}, and Config on everything else.
C7_Classifier ==
    cl_result # "NotCalled" =>
        /\ cl_result \in {"Halt", "Stat", "Reset", "Config"}
        /\ (cl_result = "Halt") <=> (cl_buffer = <<123, 72, 65, 76, 84, 125>>)
        /\ (cl_result = "Stat") <=> (cl_buffer = <<123, 83, 84, 65, 84, 125>>)
        /\ (cl_result = "Reset") <=> (cl_buffer = <<123, 82, 83, 69, 84, 125>>)

\* {HALT}x was classified, as Config.
C7_Witness ==
    cl_buffer = <<123, 72, 65, 76, 84, 125, 120>> /\ cl_result = "Config"

\* C8: a frame ( + 7 bytes + ) stored in the TouchBuffer and then loaded,
\* with no store in between, comes back as the same 9 bytes in order.
C8_RoundTrip ==
    (tb_out # <<>> /\ WellFormedSample(tb_arg)) => tb_out = tb_arg

\* (ABCDEFG) was stored and loaded.
C8_Witness ==
    tb_arg = <<40, 65, 66, 67, 68, 69, 70, 71, 41>> /\ tb_out = tb_arg

\* C10: on every observe the lock-guarded array and the packed word give
\* the same 9 bytes, from the freshly created slot on.
C10_Interchangeable ==
    tb_out # <<>> => tb_out = rw_out

C2_WatcherErrorHalts ==
    watch = "failed" => ~run_flag

\* C3: whenever a session ends, however its threads ended, the next thing
\* is drain_and_reset.
C3_DrainAfterSession ==
    [][(pc = "scope" /\ pc' # "scope") => pc' = "drain_write"]_vars

\* C4: every value the publisher writes to the display link is the slot's
\* initial value or one whole sample the producer published before.
C4_NoTornRead ==
    (pc = "scope" /\ alls_out # <<>>) => alls_out \in ({ZeroBuffer} \cup hist.published)

\* The publisher has written (1234567) whole while the producer is half
\* way through copying (7654321) over it.
C4_Witness ==
    /\ pc = "scope" /\ alls_out = SampleA /\ state_buffer[1] = 40
    /\ prod.pc = "copy" /\ prod.idx = 4 /\ prod.local_buf = SampleB

\* C9: a store of a frame that is not 9 bytes long leaves the packed word
\* as it was; a frame of another length framed by the producer is dropped:
\* the slot is not locked or changed, the producer goes back to its loop
\* and the session goes on; only 9-byte frames are ever copied.
C9_OtherLengthDropped ==
    /\ [][(unit = "slot" /\ tb_out' = <<>> /\ Len(tb_arg') # 9)
              => (tb_data' = tb_data /\ state_buffer' = state_buffer)]_vars
    /\ [][(/\ unit = "proxy" /\ prod.pc = "read" /\ prod'.pc \notin {"read", "panic"}
           /\ Len(prod'.local_buf) # 9)
              => (/\ prod'.pc = "check"
                  /\ state_buffer' = state_buffer /\ lock' = lock
                  /\ pc' = "scope" /\ run_flag' = run_flag)]_vars
    /\ [](prod.pc \in {"lock", "copy"} => Len(prod.local_buf) = 9)

\* The producer framed (ok), dropped it and is back at its loop, the slot
\* still holding the sample published before.
C9_Witness ==
    /\ pc = "scope" /\ prod.pc = "check" /\ prod.local_buf = ShortReply
    /\ state_buffer = SampleA

\* C11: on a sensor stream that yields N frames and then times out,
\* drain_and_reset first writes {RSET} and then {HALT} to the sensor link,
\* once each and before any read; each turn of its loop then takes one
\* frame off the stream and drops it, writing nothing; at the timeout,
\* with no frame left before it, it returns success, leaving unread what
\* follows the timeout.
C11_DrainDiscardsAll ==
    /\ [][pc = "drain_write"
              => (/\ pc' = "drain_read"
                  /\ adx_out' = << <<123, 82, 83, 69, 84, 125>>,
                                   <<123, 72, 65, 76, 84, 125>> >>
                  /\ adx_in' = adx_in
                  /\ hist'.drained = 0)]_vars
    /\ [][(pc = "drain_read" /\ FramesAhead(adx_in) > 0)
              => (/\ pc' = "drain_read"
                  /\ FramesAhead(adx_in') = FramesAhead(adx_in) - 1
                  /\ AfterTimeout(adx_in') = AfterTimeout(adx_in)
                  /\ hist'.drained = Counted("drain", hist.drained, MaxDrained)
                  /\ adx_out' = adx_out /\ alls_out' = alls_out)]_vars
    /\ [][(pc = "drain_read" /\ FramesAhead(adx_in) = 0)
              => (/\ pc' = "relay"
                  /\ adx_in' = AfterTimeout(adx_in)
                  /\ hist'.drained = hist.drained
                  /\ adx_out' = adx_out /\ alls_out' = alls_out)]_vars
    /\ [](pc \in {"drain_read", "relay"}
              => adx_out = << <<123, 82, 83, 69, 84, 125>>,
                              <<123, 72, 65, 76, 84, 125>> >>)
    /\ [](pc # "exit_err")

\* Two frames were read and dropped, the timeout ended the drain, and the
\* frame that came after the timeout is still unread.
C11_Witness ==
    /\ pc = "relay" /\ hist.drained = 2
    /\ adx_in = <<Data(SampleA)>>
    /\ adx_out = <<RESET_COMMAND, HALT_COMMAND>>

\* No thread of a streaming session exists.
NoSession ==
    prod = IdleProducer /\ publ = "idle" /\ watch = "idle"

\* The main thread read the frame at the head of this link in this step.
TookFrame(link, link2) ==
    /\ link # <<>> /\ Head(link).kind = "Data"
    /\ link2 = Tail(link)

\* C12: a frame the relay loop reads from the display link that is none
\* of {HALT}, {STAT}, {RSET} is written as it is to the sensor link, with
\* nothing read from the sensor yet; then one frame is taken from the
\* sensor link and written as it is to the display link, with nothing more
\* written to the sensor; no session thread exists at any point of this.
\* (A write that fails ends the proxy instead.)
C12_ConfigRelay ==
    /\ [][(/\ pc = "relay" /\ TookFrame(alls_in, alls_in')
           /\ Head(alls_in).bytes \notin { <<123, 72, 65, 76, 84, 125>>,
                                          <<123, 83, 84, 65, 84, 125>>,
                                          <<123, 82, 83, 69, 84, 125>> }
           /\ pc' # "exit_err")
              => (/\ pc' = "reply"
                  /\ adx_out' = <<Head(alls_in).bytes>>
                  /\ alls_out' = <<>>
                  /\ adx_in' = adx_in
                  /\ NoSession')]_vars
    /\ [][(/\ pc = "reply" /\ TookFrame(adx_in, adx_in')
           /\ pc' # "exit_err")
              => (/\ pc' = "relay"
                  /\ alls_out' = Head(adx_in).bytes
                  /\ adx_out' = adx_out
                  /\ alls_in' = alls_in
                  /\ NoSession')]_vars
    /\ [](pc = "reply" => (NoSession /\ Len(adx_out) = 1 /\ alls_out = <<>>))

\* {cfgX} went to the sensor, (ok) came back to the display, the relay
\* loop is at its next read and no session runs.
C12_Witness ==
    /\ pc = "relay" /\ NoSession
    /\ adx_out = <<ConfigFrame>>
    /\ alls_out = ShortReply

\* The stream without its timeouts: the same bytes, the same errors.
RECURSIVE WithoutTimeouts(_)
WithoutTimeouts(r) ==
    IF r = <<>> THEN <<>>
    ELSE IF Head(r).kind = "TimedOut" THEN WithoutTimeouts(Tail(r))
    ELSE <<Head(r)>> \o WithoutTimeouts(Tail(r))

\* The number of events of its reader that the call took whole.
TakenEvents == Len(fr_reader) - Len(fr_result.r)

C14_ProducerStops ==
    (pc = "scope" /\ ~run_flag) ~> (pc # "scope" \/ prod.pc \in {"done", "panic"})

\* C15: every session starts with the flag running and a fresh slot (all
\* zero, unlocked, nothing published); during the session the flag changes
\* only from running to halted, only in a step of the watcher, which ends
\* with it, and neither the producer nor the publisher moves in that step;
\* once halted the flag stays halted for the rest of the session.
C15_FlagDiscipline ==
    /\ [][(pc # "scope" /\ pc' = "scope")
              => (/\ run_flag' = TRUE
                  /\ state_buffer' = [i \in 1..9 |-> 0]
                  /\ lock' = [writer |-> FALSE, readers |-> 0]
                  /\ hist'.published = {} /\ hist'.seq = 0)]_vars
    /\ [][(pc = "scope" /\ pc' = "scope" /\ run_flag' # run_flag)
              => (/\ run_flag = TRUE /\ run_flag' = FALSE
                  /\ watch = "read" /\ watch' = "done"
                  /\ prod' = prod /\ publ' = publ)]_vars
    /\ [][(pc = "scope" /\ pc' = "scope" /\ ~run_flag) => ~run_flag']_vars
    /\ []((pc = "scope" /\ ~run_flag) => watch = "done")

\* The watcher has halted a session in which a sample had been published;
\* the publisher has seen the flag and ended.
C15_Witness ==
    /\ pc = "scope" /\ ~run_flag /\ watch = "done"
    /\ state_buffer = SampleA /\ publ = "done"

\* C16: the step of the relay loop that takes a frame off the display link
\* leaves exactly that frame written to the sensor link, whatever it is;
\* the step starts a session exactly when the frame is {STAT}, and a
\* session starts in no other way; for {HALT} and {RSET} the sensor reader
\* and the display writer are left alone and the loop is at its next read;
\* where the loop acts on the classification (Config arm, session) the
\* frame has been written already.  (A write that fails ends the proxy.)
C16_RelayDispatch ==
    /\ [][(pc = "relay" /\ TookFrame(alls_in, alls_in') /\ pc' # "exit_err")
              => (/\ adx_out' = <<Head(alls_in).bytes>>
                  /\ (pc' = "scope") <=> (Head(alls_in).bytes = <<123, 83, 84, 65, 84, 125>>)
                  /\ (Head(alls_in).bytes \in { <<123, 72, 65, 76, 84, 125>>,
                                                <<123, 82, 83, 69, 84, 125>> })
                        => (/\ pc' = "relay" /\ NoSession'
                            /\ adx_in' = adx_in /\ alls_out' = <<>>))]_vars
    /\ [][(pc # "scope" /\ pc' = "scope")
              => (/\ pc = "relay" /\ TookFrame(alls_in, alls_in')
                  /\ Head(alls_in).bytes = <<123, 83, 84, 65, 84, 125>>)]_vars
    /\ [](pc = "scope" => adx_out = << <<123, 83, 84, 65, 84, 125>> >>)
    /\ [](pc = "reply" => (Len(adx_out) = 1 /\ adx_out[1] # <<123, 83, 84, 65, 84, 125>>))

\* {HALT} was forwarded by the relay loop while a sensor frame was waiting:
\* the frame is still unread, nothing went to the display, no session.
C16_Witness ==
    /\ pc = "relay" /\ NoSession
    /\ adx_out = <<HALT_COMMAND>> /\ alls_out = <<>>
    /\ adx_in = <<Data(ShortReply)>>

\* Something was taken off the reader side of a link (the peer only adds).
Consumed(link, link2) ==
    link2 # link /\ Len(link2) <= Len(link)

\* C17: while a session runs, nothing is written to the sensor link and
\* the main thread's buffer is untouched; what is taken off the sensor
\* link is taken by a step of the producer alone, what is written to the
\* display link by a step of the publisher alone, what is taken off the
\* display link by a step of the watcher alone; the session is left only
\* when all three threads have ended, by a step that does no I/O; and no
\* session thread exists while the main thread drains or relays.
C17_HandleOwnership ==
    /\ [][(pc = "scope" /\ pc' = "scope")
              => (/\ adx_out' = adx_out
                  /\ command_buffer' = command_buffer
                  /\ Consumed(adx_in, adx_in')
                        => (/\ prod.pc = "read" /\ prod'.pc # "read"
                            /\ publ' = publ /\ watch' = watch
                            /\ alls_in' = alls_in /\ alls_out' = alls_out)
                  /\ alls_out' # alls_out
                        => (/\ publ = "write" /\ publ' \in {"check", "panic"}
                            /\ prod' = prod /\ watch' = watch
                            /\ alls_in' = alls_in /\ adx_in' = adx_in)
                  /\ Consumed(alls_in, alls_in')
                        => (/\ watch = "read"
                            /\ prod' = prod /\ publ' = publ
                            /\ adx_in' = adx_in /\ alls_out' = alls_out))]_vars
    /\ [][(pc = "scope" /\ pc' # "scope")
              => (/\ prod.pc \in {"done", "panic"}
                  /\ publ \in {"done", "panic"}
                  /\ watch \in {"done", "failed"}
                  /\ alls_in' = alls_in /\ adx_in' = adx_in
                  /\ alls_out' = alls_out /\ adx_out' = adx_out)]_vars
    /\ [](pc # "scope" => NoSession)
    /\ [](pc = "scope" => (prod.pc # "idle" /\ publ # "idle" /\ watch # "idle"))

\* After a session in which the publisher wrote (7654321), with all three
\* threads gone, drain_and_reset has made its writes and is reading the
\* sensor link.
C17_Witness ==
    /\ pc = "drain_read" /\ NoSession
    /\ adx_out = <<STAT_COMMAND, RESET_COMMAND, HALT_COMMAND>>
    /\ alls_out = SampleB
    /\ adx_in = <<Data(SampleA)>>

\* C18: in a session, the step that takes a frame off the display link
\* writes nothing to the sensor link; when the frame is not {HALT} the flag
\* is left as it is and the watcher is reading again; when it is {HALT}
\* the flag is halted and the watcher has ended; and the flag is halted,
\* or the watcher ended, by no step but the one that takes {HALT}.
C18_WatcherFrames ==
    /\ [][(pc = "scope" /\ TookFrame(alls_in, alls_in'))
              => (/\ pc' = "scope"
                  /\ adx_out' = adx_out
                  /\ IF Head(alls_in).bytes = <<123, 72, 65, 76, 84, 125>>
                     THEN /\ run_flag' = FALSE /\ watch' = "done"
                          /\ hist'.passed = hist.passed
                     ELSE /\ run_flag' = run_flag /\ watch' = "read"
                          /\ hist'.passed = Head(alls_in).bytes)]_vars
    /\ [][(pc = "scope" /\ pc' = "scope" /\ (run_flag' # run_flag \/ watch' # watch))
              => (/\ TookFrame(alls_in, alls_in')
                  /\ Head(alls_in).bytes = <<123, 72, 65, 76, 84, 125>>)]_vars

\* The watcher has passed over {RSET}: the session streams on, the flag
\* is running, the sensor link has been written nothing but the {STAT}
\* that started the session.
C18_Witness ==
    /\ pc = "scope" /\ run_flag /\ watch = "read"
    /\ hist.passed = RESET_COMMAND
    /\ adx_out = <<STAT_COMMAND>>
    /\ alls_out = SampleA

\* All bytes carry the same number.
OneSample(tags) == \A i, j \in 1..9 : tags[i] = tags[j]

\* C19: each value the publisher writes is one sample, all its bytes from
\* the same publish, and its number is not below the number of the value
\* written before it: a sample may be written again or skipped, but never
\* one published before the sample written last.
C19_LatestInOrder ==
    /\ [][(pc = "scope" /\ publ = "write" /\ publ' # "write")
              => (/\ alls_out' = state_buffer
                  /\ OneSample(hist'.written)
                  /\ hist'.written[1] >= hist.written[1])]_vars
    /\ [][hist'.written # hist.written
              => (pc' # "scope" \/ (publ = "write" /\ publ' # "write"))]_vars
    /\ [](OneSample(hist.written) /\ hist.written[1] <= hist.seq)

\* (1234567) was published first and (7654321) second; the publisher has
\* written the second.
C19_Witness ==
    /\ pc = "scope"
    /\ hist.published = {SampleA, SampleB}
    /\ hist.seq = 2 /\ hist.written[1] = 2
    /\ alls_out = SampleB /\ state_buffer = SampleB

\* C20: every value the publisher writes to the display link in a session
\* is a well-formed Touch Sample: 9 bytes, ( first and ) last.
C20_WellFormedWrites ==
    (pc = "scope" /\ alls_out # <<>>) => WellFormedSample(alls_out)

=============================================================================
